---- MODULE Spec2Model ----
(***************************************************************************)
(* GeographicLib: the georef codec (Georef::Forward, Georef::Reverse) and  *)
(* the iterative gnomonic reverse projection (Gnomonic::Reverse).          *)
(*                                                                         *)
(* Reals are exact: a coordinate is an integer count of 1/DEN degree, or   *)
(* NaN (an integer no computation reaches).  A string is a sequence of     *)
(* one-character strings.                                                  *)
(***************************************************************************)
EXTENDS Integers, Sequences, FiniteSets, TLC

VARIABLES
  pc,        \* Georef driver: "fwd", "rev" or "done"
  mode,      \* "fwd": Forward then Reverse of its result; "rev": Reverse of a given string
  lat, lon, prec,   \* arguments of Georef::Forward
  georef,    \* the georef string (Forward's result, Reverse's argument)
  fstatus,   \* how Forward ended: "none", "ok", "throw", "abort"
  fidx,      \* the table indices Forward computed
  centerp,   \* Reverse's centerp argument
  rlat, rlon, rprec, \* the caller's lat, lon, prec that Reverse writes
  prec0,     \* the caller's prec before the Reverse call
  rstatus,   \* how Reverse ended: "none", "ok", "throw"
  gpc,       \* Gnomonic::Reverse position: "idle", "loop", "body", "after", "done"
  rho, little, s,   \* Gnomonic::Reverse locals
  count, trip,
  m, M, lat1,       \* last outputs of line.Position
  out,              \* lat, lon, azi, rk written by Gnomonic::Reverse
  evals,            \* number of line.Position calls so far
  nupd,             \* number of updates of s so far
  tripIter,         \* iteration (1-based) at which trip was set, 0 if never
  tripBy            \* "none", or the kind of step that set trip: "small", "nan"

gvars == <<pc, mode, lat, lon, prec, georef, fstatus, fidx, centerp,
           rlat, rlon, rprec, prec0, rstatus>>
nvars == <<gpc, rho, little, s, count, trip, m, M, lat1, out, evals, nupd,
           tripIter, tripBy>>
vars == <<gvars, nvars>>

\* Integers of the model stay within RealMax in magnitude; Big stands for a
\* real beyond it and NaN for not-a-number.
RealMax == 1000000000
Big == 2 * RealMax
NaN == -Big

-----------------------------------------------------------------------------
(* Characters *)

Upper == <<"A","B","C","D","E","F","G","H","I","J","K","L","M",
           "N","O","P","Q","R","S","T","U","V","W","X","Y","Z">>
Lower == <<"a","b","c","d","e","f","g","h","i","j","k","l","m",
           "n","o","p","q","r","s","t","u","v","w","x","y","z">>

Range(f) == {f[i] : i \in DOMAIN f}

\* std::toupper in the C locale
UpperOf == [c \in Range(Lower) |-> Upper[CHOOSE i \in DOMAIN Lower : Lower[i] = c]]
toupper(c) == IF c \in DOMAIN UpperOf THEN UpperOf[c] ELSE c

\* Georef.cpp:17-20
digits_  == <<"0","1","2","3","4","5","6","7","8","9">>
lontile_ == <<"A","B","C","D","E","F","G","H","J","K","L","M",
              "N","P","Q","R","S","T","U","V","W","X","Y","Z">>
lattile_ == <<"A","B","C","D","E","F","G","H","J","K","L","M">>
degrees_ == <<"A","B","C","D","E","F","G","H","J","K","L","M","N","P","Q">>

\* Georef.hpp:44-54
tile_    == 15
maxlat_  == 89
base_    == 10
baselen_ == 4
maxprec_ == 5 + 6
mult2_   == 60

\* C++ integer division truncates toward zero; % takes the dividend's sign
CDiv(a, b) == IF a >= 0 THEN a \div b ELSE -((-a) \div b)
CMod(a, b) == a - b * CDiv(a, b)

lonorig_ == CDiv(-180, tile_)
latorig_ == CDiv(-90, tile_)
maxlen_  == baselen_ + 2 * maxprec_

\* Utility::lookup(s, c): position of toupper(c) in s, or -1
PosIn == [str \in {digits_, lontile_, lattile_, degrees_} |->
            [c \in Range(str) |-> (CHOOSE i \in DOMAIN str : str[i] = c) - 1]]
lookup(str, c) ==
  IF toupper(c) \in DOMAIN PosIn[str] THEN PosIn[str][toupper(c)] ELSE -1

Min(a, b) == IF a < b THEN a ELSE b
Max(a, b) == IF a > b THEN a ELSE b
Abs(a) == IF a < 0 THEN -a ELSE a

-----------------------------------------------------------------------------
(* Coordinates: integer counts of 1/DEN degree.  DEN is twice the number   *)
(* of precision-5 cells in a degree, so that a precision-5 cell centre is  *)
(* a whole count.                                                          *)
DEN == 2 * mult2_ * base_ * base_ * base_

deg(d) == d * DEN

\* Math::AngNormalize: longitude into [-180, 180)
AngNormalize(x) == ((x + deg(180)) % deg(360)) - deg(180)

\* Georef.cpp:31-32
ClampPrecNoBump(p) == Max(-1, Min(maxprec_, p))
ClampPrec(p) ==
  LET q == Max(-1, Min(maxprec_, p)) IN IF q = 1 THEN q + 1 ELSE q

\* Georef.cpp:45-59: the prec digits of x = floor(mult * f), most significant
\* first, mult = 60 * 10^(prec-2).  The leading digit is floor(6 * f) and each
\* later one is the next decimal digit; x itself (up to 6e10) is not formed.
RECURSIVE XDigits(_, _, _)
XDigits(f, i, n) ==
  IF i >= n THEN <<>>
  ELSE IF f = DEN   \* f == 1: f -= epsilon/2, so floor(mult * f) = mult - 1
       THEN <<(IF i = 0 THEN 5 ELSE 9)>> \o XDigits(f, i + 1, n)
       ELSE LET r == IF i = 0 THEN 6 ELSE base_
                d == (r * f) \div DEN
            IN  <<d>> \o XDigits(r * f - d * DEN, i + 1, n)

\* what reading str[i] (0-based) can give: the character, or, out of bounds,
\* whatever the build yields: some byte, or an abort in a checked build
Abort == "<abort>"
UBChars == {"A", "a", "?"}
Read(str, i) ==
  IF i >= 0 /\ i < Len(str) THEN {str[i + 1]} ELSE UBChars \cup {Abort}

INVALID == <<"I","N","V","A","L","I","D">>
NoIdx == [lontile |-> 0, lattile |-> 0, londeg |-> 0, latdeg |-> 0]

\* Georef.cpp:26
NaNCheckLatOnly(la, lo) == la = NaN
IsNaNInput(la, lo) == la = NaN \/ lo = NaN

\* Georef.cpp:62
ResultLen(p) == baselen_ + 2 * p

\* Georef.cpp:22-64: the set of ways Forward(la, lo, p) can end
Forward(la, lo, p) ==
  IF la # NaN /\ Abs(la) > deg(90)
  THEN {[status |-> "throw", georef |-> <<>>, idx |-> NoIdx]}
  ELSE IF IsNaNInput(la, lo)
  THEN {[status |-> "ok", georef |-> INVALID, idx |-> NoIdx]}
  ELSE
    LET lo1  == AngNormalize(lo)
        p1   == ClampPrec(p)
        ilon == lo1 \div DEN
        flon == lo1 - ilon * DEN
        ilat == Min(la \div DEN, maxlat_)
        flat == la - ilat * DEN
        i0   == CDiv(ilon, tile_) - lonorig_
        i1   == CDiv(ilat, tile_) - latorig_
        i2   == CMod(ilon, tile_)
        i3   == CMod(ilat, tile_)
        \* the degree indices are formed only when prec >= 0
        idx  == [lontile |-> i0, lattile |-> i1,
                 londeg |-> IF p1 >= 0 THEN i2 ELSE 0,
                 latdeg |-> IF p1 >= 0 THEN i3 ELSE 0]
        xs   == XDigits(flon, 0, p1)
        ys   == XDigits(flat, 0, p1)
        dig(ds) == [c \in 1..Len(ds) |-> digits_[ds[c] + 1]]
    IN
    { IF Abort \in {c0, c1, c2, c3}
      THEN [status |-> "abort", georef |-> <<>>, idx |-> idx]
      ELSE [status |-> "ok",
            georef |-> SubSeq(<<c0, c1, c2, c3>> \o dig(xs) \o dig(ys),
                              1, ResultLen(p1)),
            idx |-> idx]
      : c0 \in Read(lontile_, i0), c1 \in Read(lattile_, i1),
        c2 \in (IF p1 >= 0 THEN Read(degrees_, i2) ELSE {"-"}),
        c3 \in (IF p1 >= 0 THEN Read(degrees_, i3) ELSE {"-"}) }

-----------------------------------------------------------------------------
(* Georef::Reverse.  lat1, lon1 and unit are reals of the code; the model  *)
(* keeps them as integers up to RealMax and as Big beyond it.  The results *)
(* lat and lon are quotients <<a, b>>; <<0, 0>> is NaN and <<1, 0>> a      *)
(* value whose terms are Big.                                              *)
NaNQ == <<0, 0>>
BigQ == <<1, 0>>

Mul(a, b) ==
  IF a = Big \/ b = Big THEN Big
  ELSE IF b # 0 /\ Abs(a) > RealMax \div Abs(b) THEN Big ELSE a * b
Add(a, b) ==
  IF a = Big \/ b = Big THEN Big
  ELSE IF Abs(a) > RealMax - Abs(b) THEN Big ELSE a + b
\* a / b as the pair <<a, b>>
Quot(a, b) == IF a = Big \/ b = Big THEN BigQ ELSE <<a, b>>

\* Georef.cpp:69-72
InvPrefixCaseSensitive(g) ==
  Len(g) >= 3 /\ g[1] = "I" /\ g[2] = "N" /\ g[3] = "V"
InvPrefix(g) ==
  Len(g) >= 3 /\ toupper(g[1]) = "I" /\ toupper(g[2]) = "N"
              /\ toupper(g[3]) = "V"

\* Georef.cpp:73-74: what the INV branch leaves in prec
InvPrec(p) == p

\* Georef.cpp:103: find_first_not_of(digits_, baselen_) != npos
NonDigitFrom(g, from) ==
  \E i \in (from + 1)..Len(g) : g[i] \notin DOMAIN PosIn[digits_]

Thrown == [status |-> "throw"]

\* Georef.cpp:112-123: the loop over the digit pairs, from index i
RECURSIVE DigitLoop(_, _, _, _, _, _)
DigitLoop(g, i, prec1, lon1_, lat1_, unit) ==
  IF i >= prec1
  THEN [status |-> "ok", lon1 |-> lon1_, lat1 |-> lat1_, unit |-> unit]
  ELSE LET mm == IF i # 0 THEN base_ ELSE 6
           x == lookup(digits_, g[baselen_ + i + 1])
           y == lookup(digits_, g[baselen_ + i + prec1 + 1])
       IN  IF ~(i # 0 \/ (x < mm /\ y < mm))
           THEN Thrown
           ELSE DigitLoop(g, i + 1, prec1, Add(Mul(mm, lon1_), x),
                          Add(Mul(mm, lat1_), y), Mul(unit, mm))

\* Georef.cpp:126-131
Finish(r, prec1, cp) ==
  LET unit == IF cp THEN Mul(r.unit, 2) ELSE r.unit
      la1  == IF cp THEN Add(Mul(2, r.lat1), 1) ELSE r.lat1
      lo1  == IF cp THEN Add(Mul(2, r.lon1), 1) ELSE r.lon1
  IN  [status |-> "ok", lat |-> Quot(Mul(tile_, la1), unit),
       lon |-> Quot(Mul(tile_, lo1), unit), prec |-> prec1]

\* Georef.cpp:66-132: Reverse(g, lat, lon, prec, cp); p is the caller's prec
\* before the call.  When status is "throw" nothing is written.
Reverse(g, p, cp) ==
  LET len == Len(g) IN
  IF InvPrefix(g)
  THEN [status |-> "ok", lat |-> NaNQ, lon |-> NaNQ, prec |-> InvPrec(p)]
  ELSE IF len < baselen_ - 2 THEN Thrown
  ELSE
    LET prec1 == CDiv(2 + len - baselen_, 2) - 1
        k0 == lookup(lontile_, g[1])
        k1 == lookup(lattile_, g[2])
    IN
    IF k0 < 0 THEN Thrown
    ELSE IF k1 < 0 THEN Thrown
    ELSE IF ~(len > 2)
         THEN Finish([lon1 |-> k0 + lonorig_, lat1 |-> k1 + latorig_,
                      unit |-> 1], prec1, cp)
    ELSE
      LET k2 == lookup(degrees_, g[3]) IN
      IF k2 < 0 THEN Thrown
      ELSE IF len < 4 THEN Thrown
      ELSE
        LET k3 == lookup(degrees_, g[4])
            lo1 == (k0 + lonorig_) * tile_ + k2
            la1 == (k1 + latorig_) * tile_ + k3
        IN
        IF k3 < 0 THEN Thrown
        ELSE IF ~(prec1 > 0)
             THEN Finish([lon1 |-> lo1, lat1 |-> la1, unit |-> tile_],
                         prec1, cp)
        ELSE IF NonDigitFrom(g, baselen_) THEN Thrown
        ELSE IF len % 2 # 0 THEN Thrown
        ELSE IF prec1 = 1 THEN Thrown
        ELSE LET r == DigitLoop(g, 0, prec1, lo1, la1, tile_)
             IN  IF r.status = "throw" THEN Thrown
                 ELSE Finish(r, prec1, cp)

-----------------------------------------------------------------------------
(* The georef driver: one call of Forward followed by Reverse of its       *)
(* result (mode "fwd"), or one call of Reverse on a given string (mode     *)
(* "rev").                                                                 *)

PrecSlack == 1
MaxTail == 24

Fracs == {0, DEN \div 2, DEN - 1}
LatDegs == {-90, -76, -1, 0, 14, 89, 90}
LonDegs == {-180, -16, -1, 0, 14, 179, 359}
LatInputs == {deg(d) + f : d \in LatDegs, f \in Fracs} \cup {NaN}
LonInputs == {deg(d) + f : d \in LonDegs, f \in Fracs} \cup {NaN}
PrecInputs == (-1 - PrecSlack)..(maxprec_ + PrecSlack)
PrecBefore == {-5, 3}

ShortChars == {"I", "i", "N", "n", "V", "v", "K", "5"}
Heads == { <<"N","K","L","N">>, <<"n","k","l","n">>, <<"N","K","1","N">>,
           <<"i","N","v","K">>, <<"A","A","A","A">> }
\* a tail of n characters: 9s, with `lead` first in each half and `bad`
\* (when not a digit 9) at position at
DigitTail(n, lead, at, bad) ==
  [i \in 1..n |-> IF i = at THEN bad
                  ELSE IF i = 1 \/ i = (n \div 2) + 1 THEN lead ELSE "9"]
Tails == UNION { { DigitTail(n, lead, at, "x") :
                     lead \in {"0", "5", "6"}, at \in {0, 1, n} } :
                 n \in 0..MaxTail }
StringInputs ==
  UNION { [1..n -> ShortChars] : n \in 0..3 }
    \cup { h \o t : h \in Heads, t \in Tails }

NoOut == [lat |-> <<"NaN", 0>>, lon |-> <<"NaN", 0>>,
          azi |-> <<"NaN", 0>>, rk |-> <<"NaN", 0>>]
Uninit == [lat |-> <<"uninit", 0>>, lon |-> <<"uninit", 0>>,
           azi |-> <<"uninit", 0>>]

GnomonicIdle ==
  /\ gpc = "idle" /\ rho = <<0, 1>> /\ little = TRUE /\ s = 0
  /\ count = 0 /\ trip = 0 /\ m = 0 /\ M = 0 /\ lat1 = Uninit
  /\ out = NoOut /\ evals = 0 /\ nupd = 0 /\ tripIter = 0 /\ tripBy = "none"

GeorefIdle ==
  /\ pc = "done" /\ mode = "none" /\ lat = 0 /\ lon = 0 /\ prec = 0
  /\ georef = <<>> /\ fstatus = "none" /\ fidx = NoIdx /\ centerp = TRUE
  /\ rlat = <<0, 1>> /\ rlon = <<0, 1>> /\ rprec = 0 /\ prec0 = 0
  /\ rstatus = "none"

Init ==
  /\ mode \in {"fwd", "rev"}
  /\ pc = mode
  /\ IF mode = "fwd"
     THEN /\ lat \in LatInputs /\ lon \in LonInputs /\ prec \in PrecInputs
          /\ georef = <<>>
          /\ prec0 = -5
     ELSE /\ lat = 0 /\ lon = 0 /\ prec = 0
          /\ georef \in StringInputs
          /\ prec0 \in PrecBefore
  /\ fstatus = "none" /\ fidx = NoIdx /\ centerp = TRUE
  /\ rlat = <<0, 1>> /\ rlon = <<0, 1>>
  /\ rprec = prec0
  /\ rstatus = "none"
  /\ GnomonicIdle

ForwardCall ==
  /\ pc = "fwd"
  /\ \E o \in Forward(lat, lon, prec) :
       /\ fstatus' = o.status
       /\ georef' = o.georef
       /\ fidx' = o.idx
       /\ pc' = IF o.status = "ok" THEN "rev" ELSE "done"
  /\ UNCHANGED <<mode, lat, lon, prec, centerp, rlat, rlon, rprec, prec0,
                 rstatus, nvars>>

ReverseCall ==
  /\ pc = "rev"
  /\ \E cp \in BOOLEAN : \E r \in {Reverse(georef, rprec, cp)} :
       /\ centerp' = cp
       /\ rstatus' = r.status
       /\ IF r.status = "ok"
          THEN rlat' = r.lat /\ rlon' = r.lon /\ rprec' = r.prec
          ELSE UNCHANGED <<rlat, rlon, rprec>>
  /\ pc' = "done"
  /\ UNCHANGED <<mode, lat, lon, prec, georef, fstatus, fidx, prec0, nvars>>

Next == ForwardCall \/ ReverseCall

Spec == Init /\ [][Next]_vars

-----------------------------------------------------------------------------
(* Gnomonic::Reverse.  Lengths are whole counts of a grid step, or NaN.    *)
(* rho is the quotient <<a, b>>, and s is kept as s * rho[2], so that the  *)
(* steps ds of both branches are whole.  The geodesic line is external:    *)
(* line.Position(s, ...) gives the point, azimuth of arc length s and any  *)
(* m and M of MVals.                                                       *)

\* Gnomonic.hpp: the iteration cap
numit_ == 10
\* the equatorial radius _a, in grid steps
A_ == 2
\* eps_ * _a, in grid steps
EpsA == 2
MaxS0 == 2

RhoInputs == 0..(A_ + 1) \cup {NaN}
mVals == {NaN, 0, 1, 2}
MVals == {NaN, -1, 0, 1}

\* Gnomonic.cpp:62: the point, azimuth the line has at s
Position(sv) == [lat |-> <<"lat", sv>>, lon |-> <<"lon", sv>>,
                 azi |-> <<"azi", sv>>]

\* Gnomonic.cpp:58
InitCountOneMore == numit_ + 1
InitCount == numit_

\* Gnomonic.cpp:63
BreakNever(t) == FALSE
BreakNow(t) == t # 0

\* Gnomonic.cpp:72
ReturnsLineAlways(t) == TRUE
ReturnsLine(t) == t # 0

\* Gnomonic.cpp:67: ds * rho[2];
\* little: (m/M - rho) * M * M, else (rho - M/m) * m * m
Ds(lit, r, mv, Mv) ==
  IF mv = NaN \/ Mv = NaN \/ r = NaNQ THEN NaN
  ELSE IF lit THEN (IF Mv = 0 THEN NaN ELSE (mv * Mv - r[1] * Mv * Mv) * r[2])
  ELSE (IF mv = 0 THEN NaN ELSE r[1] * mv * mv - Mv * mv * r[2])

\* Gnomonic.cpp:69: !(abs(ds) >= eps_ * _a)
Tripped(ds, r) == ~(ds # NaN /\ Abs(ds) >= EpsA * r[2])

\* Gnomonic.cpp:46-58: rho0 is hypot(x, y) and s0 the guess _a * atan(rho/_a)
InitG ==
  /\ GeorefIdle
  /\ gpc = "loop"
  /\ \E rho0 \in RhoInputs :
       /\ little = (rho0 # NaN /\ rho0 <= A_)
       /\ rho = IF rho0 = NaN THEN NaNQ
                ELSE IF little THEN <<rho0, 1>> ELSE <<1, rho0>>
       /\ s \in IF rho0 = NaN THEN {NaN} ELSE {s0 * rho[2] : s0 \in 0..MaxS0}
  /\ count = InitCount /\ trip = 0
  /\ m = 0 /\ M = 0 /\ lat1 = Uninit
  /\ out = NoOut /\ evals = 0 /\ nupd = 0 /\ tripIter = 0 /\ tripBy = "none"

\* Gnomonic.cpp:60-62: while (count--) { line.Position(s, ...)
Evaluate ==
  /\ gpc = "loop" /\ count # 0
  /\ count' = count - 1
  /\ m' \in mVals /\ M' \in MVals
  /\ lat1' = Position(s)
  /\ evals' = evals + 1
  /\ gpc' = "body"
  /\ UNCHANGED <<rho, little, s, trip, out, nupd, tripIter, tripBy, gvars>>

\* Gnomonic.cpp:60: while (count--) with count == 0
LoopExit ==
  /\ gpc = "loop" /\ count = 0
  /\ count' = count - 1
  /\ gpc' = "after"
  /\ UNCHANGED <<rho, little, s, trip, m, M, lat1, out, evals, nupd,
                 tripIter, tripBy, gvars>>

\* Gnomonic.cpp:63-64
Break ==
  /\ gpc = "body" /\ BreakNow(trip)
  /\ gpc' = "after"
  /\ UNCHANGED <<rho, little, s, count, trip, m, M, lat1, out, evals, nupd,
                 tripIter, tripBy, gvars>>

\* Gnomonic.cpp:67-70
Step ==
  /\ gpc = "body" /\ ~BreakNow(trip)
  /\ \E ds \in {Ds(little, rho, m, M)} :
       /\ s' = IF ds = NaN \/ s = NaN THEN NaN ELSE s - ds
       /\ nupd' = nupd + 1
       /\ IF Tripped(ds, rho)
          THEN /\ trip' = trip + 1
               /\ tripIter' = IF trip = 0 THEN evals ELSE tripIter
               /\ tripBy' = IF trip # 0 THEN tripBy
                            ELSE IF ds = NaN THEN "nan" ELSE "small"
          ELSE UNCHANGED <<trip, tripIter, tripBy>>
  /\ gpc' = "loop"
  /\ UNCHANGED <<rho, little, count, m, M, lat1, out, evals, gvars>>

\* Gnomonic.cpp:72-76
Return ==
  /\ gpc = "after"
  /\ out' = IF ReturnsLine(trip)
            THEN [lat |-> lat1.lat, lon |-> lat1.lon, azi |-> lat1.azi,
                  rk |-> <<"M", M>>]
            ELSE NoOut
  /\ gpc' = "done"
  /\ UNCHANGED <<rho, little, s, count, trip, m, M, lat1, evals, nupd,
                 tripIter, tripBy, gvars>>

NextG == Evaluate \/ LoopExit \/ Break \/ Step \/ Return

SpecG == InitG /\ [][NextG]_vars

\* the loop is sequential code: every step that can run does
FairSpecG == SpecG /\ WF_vars(NextG)

-----------------------------------------------------------------------------
(* Properties of the georef codec, under Spec                              *)

Forwarded == mode = "fwd" /\ fstatus # "none"
Reversed == pc = "done" /\ rstatus # "none"
InRange(la, lo) ==
  /\ la # NaN /\ lo # NaN
  /\ Abs(la) <= deg(90) /\ -deg(180) <= lo /\ lo < deg(180)

RTPrecs == {-1, 0, 2, 3, 4, 5}
RECURSIVE Pow10(_)
Pow10(n) == IF n <= 0 THEN 1 ELSE base_ * Pow10(n - 1)
\* half the cell width of precision p, in 1/DEN degree
HalfWidth(p) ==
  IF p = -1 THEN (tile_ * DEN) \div 2
  ELSE IF p = 0 THEN DEN \div 2
  ELSE DEN \div (2 * mult2_ * Pow10(p - 2))
OnBoundary(v, p) == v % (2 * HalfWidth(p)) = 0
\* the quotient q = <<a, b>> of Reverse in 1/DEN degree (b divides tile_ * DEN
\* and a is a multiple of tile_ at every precision up to 5)
InUnits(q) == (q[1] * ((tile_ * DEN) \div q[2])) \div tile_
Near(q, v, p) ==
  /\ q # NaNQ /\ q # BigQ
  /\ (tile_ * DEN) % q[2] = 0
  /\ Abs(InUnits(q) - v) <= HalfWidth(p)

\* C1: for every precision in {-1, 0, 2, 3, 4, 5} and every (lat, lon) with
\* lat in [-90, 90] and lon in [-180, 180) off the cell boundaries,
\* Reverse(Forward(lat, lon, prec), centerp = true) succeeds, returns the same
\* precision, and a latitude and longitude within half a cell of the input.
C1_RoundTrip ==
  ( /\ Forwarded /\ fstatus = "ok" /\ Reversed /\ centerp
    /\ InRange(lat, lon) /\ prec \in RTPrecs
    /\ ~OnBoundary(lat, prec) /\ ~OnBoundary(lon, prec) )
  => /\ rstatus = "ok"
     /\ rprec = prec
     /\ Near(rlat, lat, prec)
     /\ Near(rlon, lon, prec)

StartsINV(g) ==
  Len(g) >= 3 /\ g[1] \in {"I", "i"} /\ g[2] \in {"N", "n"}
              /\ g[3] \in {"V", "v"}
Letters(str) == Range(str) \cup {c \in Range(Lower) : toupper(c) \in Range(str)}
\* lonTile latTile [ lonDeg latDeg [ digits ] ], digits of length 2 * p,
\* p in 2..11
MatchesGrammar(g) ==
  /\ Len(g) \in {2, 4} \cup {4 + 2 * p : p \in 2..11}
  /\ g[1] \in Letters(lontile_) /\ g[2] \in Letters(lattile_)
  /\ Len(g) >= 4 => g[3] \in Letters(degrees_) /\ g[4] \in Letters(degrees_)
  /\ \A i \in 5..Len(g) : g[i] \in Range(digits_)

\* C2: Reverse fails with an error for every string that neither starts with
\* "INV" (in any case) nor matches the georef grammar.
C2_RejectsMalformed ==
  (Reversed /\ ~StartsINV(georef) /\ ~MatchesGrammar(georef))
  => rstatus = "throw"

\* C3: when Reverse returns without an error on a string that does not start
\* with "INV", the precision it writes is in [-1, 11] and is not 1.
C3_PrecRange ==
  (Reversed /\ rstatus = "ok" /\ ~StartsINV(georef))
  => rprec \in -1..11 /\ rprec # 1

\* C4 as claimed: every Forward call with a NaN latitude or longitude gives
\* "INVALID" and no error, whatever the other coordinate is.
C4_NaNAlwaysInvalid ==
  (Forwarded /\ (lat = NaN \/ lon = NaN))
  => fstatus = "ok" /\ georef = INVALID

\* C4 as amended: every Forward call with a NaN latitude, or with a NaN
\* longitude and a latitude in [-90, 90], gives "INVALID" and no error,
\* whatever the precision is.
C4_NaNInvalid ==
  (Forwarded /\ (lat = NaN \/ (lon = NaN /\ Abs(lat) <= deg(90))))
  => fstatus = "ok" /\ georef = INVALID

C4_Witness ==
  Forwarded /\ lat # NaN /\ lon = NaN /\ prec = 3 /\ georef = INVALID

\* C5: on a string of length >= 3 that starts with "INV" in any letter case,
\* Reverse sets lat and lon to NaN, raises no error and leaves the caller's
\* prec as it was.
C5_InvLeavesPrec ==
  (Reversed /\ StartsINV(georef))
  => rstatus = "ok" /\ rlat = NaNQ /\ rlon = NaNQ /\ rprec = prec0

C5_Witness ==
  /\ Reversed /\ mode = "rev" /\ Len(georef) > 3 /\ StartsINV(georef)
  /\ georef[1] = "i" /\ rlat = NaNQ /\ rprec = 3

\* the precision in effect: the request clamped into [-1, 11], 1 replaced by 2
EffPrec(p) ==
  IF p < -1 THEN -1 ELSE IF p > 11 THEN 11 ELSE IF p = 1 THEN 2 ELSE p

\* C6: for a non-NaN input with |lat| <= 90 and any precision request p, the
\* string Forward produces has length 2 when e = -1, 4 when e = 0 and
\* 4 + 2 * e when e > 0, e being p clamped into [-1, 11] with 1 replaced by 2.
C6_Length ==
  (Forwarded /\ fstatus = "ok" /\ lat # NaN /\ lon # NaN)
  => Len(georef) = (IF EffPrec(prec) = -1 THEN 2
                    ELSE IF EffPrec(prec) = 0 THEN 4
                    ELSE 4 + 2 * EffPrec(prec))

C6_Witness ==
  /\ Forwarded /\ fstatus = "ok" /\ lat # NaN /\ lon # NaN
  /\ prec = 1 /\ Len(georef) = 8

UpperOrDigit(c) == c \in Range(Upper) \cup Range(digits_)

\* C9: for every lat in [-90, 90] and every longitude, whatever the precision,
\* the table indices Forward computes are in bounds (tile indices in 0..23
\* and 0..11, degree indices in 0..14), they name the 15-degree tile and the
\* 1-degree cell that contain the point, and every character of the result is
\* an uppercase letter or a decimal digit.
C9_IndicesInBounds ==
  (Forwarded /\ lat # NaN /\ lon # NaN /\ Abs(lat) <= deg(90))
  => LET lo1 == AngNormalize(lon)
         clon == (lo1 + deg(180)) \div DEN
         clat == Min((lat + deg(90)) \div DEN, 179)
     IN  /\ fidx.lontile \in 0..23 /\ fidx.lattile \in 0..11
         /\ fidx.londeg \in 0..14 /\ fidx.latdeg \in 0..14
         /\ fidx.lontile = clon \div tile_ /\ fidx.lattile = clat \div tile_
         /\ EffPrec(prec) >= 0 =>
              fidx.londeg = clon % tile_ /\ fidx.latdeg = clat % tile_
         /\ fstatus = "ok"
         /\ \A i \in DOMAIN georef : UpperOrDigit(georef[i])

-----------------------------------------------------------------------------
(* Properties of Gnomonic::Reverse, under FairSpecG                        *)

LineOut == [lat |-> lat1.lat, lon |-> lat1.lon, azi |-> lat1.azi,
            rk |-> <<"M", M>>]

\* C7 as claimed: Reverse returns NaN for all four outputs unless some
\* iteration observed a step |ds| below eps_ * a, and writes the line's
\* outputs only when one did.
C7_NaNUnlessSmallStep ==
  gpc = "done" => (out # NoOut => tripBy = "small")

\* C7 as amended: if all numit_ iterations run and each observes
\* |ds| >= eps_ * a, Reverse returns NaN for all four outputs and raises no
\* error; it writes the line's last outputs only when some iteration observed
\* a step for which |ds| >= eps_ * a is false (|ds| below eps_ * a, or NaN).
C7_NaNUnlessTripped ==
  gpc = "done" =>
    /\ tripBy = "none" => out = NoOut /\ evals = numit_
    /\ out # NoOut => tripBy \in {"small", "nan"} /\ out = LineOut

C7_Witness ==
  gpc = "done" /\ tripBy = "none" /\ evals = numit_ /\ out = NoOut

\* what C8 says of a run that ended after a first small step
OneMoreEvaluation ==
  /\ evals = tripIter + 1
  /\ nupd = tripIter
  /\ lat1 = Position(s)
  /\ out = LineOut

\* C8 as claimed: whenever an iteration, the last one included, first
\* observes |ds| < eps_ * a, exactly one more evaluation is made, at the
\* updated s, s is not updated again, and Reverse returns its outputs.
C8_OneMoreAlways ==
  (gpc = "done" /\ tripBy = "small") => OneMoreEvaluation

\* C8 as amended: whenever one of the first numit_ - 1 iterations first
\* observes |ds| < eps_ * a, exactly one more evaluation is made, at the
\* updated s, s is not updated again, and Reverse returns its outputs.
C8_OneMoreBeforeLast ==
  (gpc = "done" /\ tripBy = "small" /\ tripIter < numit_)
  => OneMoreEvaluation

C8_Witness ==
  /\ gpc = "done" /\ tripBy = "small" /\ tripIter = numit_ - 1
  /\ evals = numit_ /\ out.lat = <<"lat", s>>

\* C10: Reverse always terminates and evaluates the line at most numit_
\* times, whatever m and M the evaluations return.
C10_Terminates == [](evals <= numit_) /\ <>(gpc = "done")

C10_Witness ==
  gpc = "done" /\ evals = numit_ /\ tripBy = "none" /\ M = -1 /\ m = 0

====
